---- MODULE Spec2Model ----
(***************************************************************************)
(* Model of inventario.py: the Producto line format (to_line / from_line)  *)
(* and the Inventario store (an insertion-ordered dict of Producto kept in *)
(* step with a backing text file that is rewritten on every mutation).     *)
(*                                                                         *)
(* Text is a sequence of one-character strings, so that formatting,        *)
(* stripping, splitting and number parsing are computed character by       *)
(* character as str.strip, str.split, int(), float() and readlines() do.   *)
(* The characters used are: letters a b m n i f, digits, "|", " ", "\n",   *)
(* "-", "+", ".", and BAD, which stands for a byte that is not valid       *)
(* UTF-8 (it only occurs in files that exist before the program starts).   *)
(***************************************************************************)
EXTENDS Integers, Sequences, FiniteSets, TLC

VARIABLES
    productos,  \* self.productos: the dict, as the sequence of its values in iteration order
    file,       \* the file at self.ruta: [exists, text]
    pc,         \* "new" before Inventario(...) runs, "ready" after, "failed" if it raised;
                \* "record", "line", "parsed" while one record goes through to_line / from_line
    faults,     \* how many calls have met a failing file operation so far
    last        \* the call that led to this state: [op, result, value, io, prev]

vars == <<productos, file, pc, faults, last>>

(***************************************************************************)
(* Bounds of the model.                                                    *)
(***************************************************************************)
\* añadir_producto inserts only while the dict holds fewer than MaxProductos records
MaxProductos == 2

\* at most MaxFaults calls of one run meet a failing file operation
\* (PermissionError, another OSError, a short write)
MaxFaults == 2

(***************************************************************************)
(* Characters and text helpers.                                            *)
(***************************************************************************)
FIELD_SEP == "|"

NL == "\n"

BAD == "<bad-byte>"

Digits == <<"0", "1", "2", "3", "4", "5", "6", "7", "8", "9">>

IsDigit(c) == \E d \in 1..10 : Digits[d] = c

DigitVal(c) == (CHOOSE d \in 1..10 : Digits[d] = c) - 1

\* the characters str.strip() removes, among the characters of the model
IsSpace(c) == c \in {" ", NL}

RECURSIVE LStrip(_)
LStrip(s) == IF s # <<>> /\ IsSpace(Head(s)) THEN LStrip(Tail(s)) ELSE s

RECURSIVE RStrip(_)
RStrip(s) ==
    IF s # <<>> /\ IsSpace(s[Len(s)]) THEN RStrip(SubSeq(s, 1, Len(s) - 1)) ELSE s

\* str.strip()
Strip(s) == RStrip(LStrip(s))

\* str.split(sep): always at least one part, empty parts are kept
RECURSIVE SplitFrom(_, _, _)
SplitFrom(s, sep, cur) ==
    IF s = <<>> THEN <<cur>>
    ELSE IF Head(s) = sep THEN <<cur>> \o SplitFrom(Tail(s), sep, <<>>)
    ELSE SplitFrom(Tail(s), sep, Append(cur, Head(s)))

Split(s, sep) == SplitFrom(s, sep, <<>>)

\* f.readlines(): the text cut after every newline, the newline kept
RECURSIVE ReadLinesFrom(_, _)
ReadLinesFrom(s, cur) ==
    IF s = <<>> THEN (IF cur = <<>> THEN <<>> ELSE <<cur>>)
    ELSE IF Head(s) = NL THEN <<Append(cur, NL)>> \o ReadLinesFrom(Tail(s), <<>>)
    ELSE ReadLinesFrom(Tail(s), Append(cur, Head(s)))

ReadLines(text) == ReadLinesFrom(text, <<>>)

RECURSIVE Concat(_)
Concat(ss) == IF ss = <<>> THEN <<>> ELSE Head(ss) \o Concat(Tail(ss))

AllDigits(s) == \A i \in 1..Len(s) : IsDigit(s[i])

RECURSIVE DigitsVal(_)
DigitsVal(s) ==
    IF s = <<>> THEN 0 ELSE 10 * DigitsVal(SubSeq(s, 1, Len(s) - 1)) + DigitVal(s[Len(s)])

RECURSIVE NatStr(_)
NatStr(n) == IF n < 10 THEN <<Digits[n + 1]>> ELSE NatStr(n \div 10) \o <<Digits[(n % 10) + 1]>>

RECURSIVE Pow10(_)
Pow10(k) == IF k = 0 THEN 1 ELSE 10 * Pow10(k - 1)

\* str(int)
IntStr(n) == IF n < 0 THEN <<"-">> \o NatStr(0 - n) ELSE NatStr(n)

\* the sign prefix of a numeric literal: <<negative, rest>>
SignOf(s) ==
    IF s # <<>> /\ Head(s) \in {"-", "+"} THEN <<Head(s) = "-", Tail(s)>> ELSE <<FALSE, s>>

\* int(s): surrounding whitespace, an optional sign, then decimal digits
ParseInt(s) ==
    LET sg == SignOf(Strip(s))
        body == sg[2]
    IN  IF body # <<>> /\ AllDigits(body)
        THEN [ok |-> TRUE, val |-> IF sg[1] THEN 0 - DigitsVal(body) ELSE DigitsVal(body)]
        ELSE [ok |-> FALSE, val |-> 0]

(***************************************************************************)
(* Floats.  A finite float is the decimal m / 10^s with its sign kept      *)
(* apart (so that -0.0 exists), normalised so that m has no trailing zero  *)
(* digit that s could drop; inf and nan are kinds of their own.            *)
(***************************************************************************)
RECURSIVE Normalise(_, _)
Normalise(m, s) ==
    IF s > 0 /\ m % 10 = 0 THEN Normalise(m \div 10, s - 1) ELSE <<m, s>>

Finite(neg, m, s) ==
    LET n == Normalise(m, s) IN [kind |-> "fin", neg |-> neg, m |-> n[1], s |-> n[2]]

Infinity(neg) == [kind |-> "inf", neg |-> neg, m |-> 0, s |-> 0]

NaN == [kind |-> "nan", neg |-> FALSE, m |-> 0, s |-> 0]

RECURSIVE ZeroPad(_, _)
ZeroPad(s, width) == IF Len(s) >= width THEN s ELSE ZeroPad(<<"0">> \o s, width)

\* the bug of formatting precio with one decimal, f"{precio:.1f}"
FloatStr_1f(x) ==
    IF x.kind = "fin" /\ x.s > 1
    THEN (IF x.neg THEN <<"-">> ELSE <<>>)
         \o NatStr(x.m \div Pow10(x.s)) \o <<".">> \o NatStr((x.m \div Pow10(x.s - 1)) % 10)
    ELSE IF x.kind = "nan" THEN <<"n", "a", "n">>
    ELSE IF x.kind = "inf" THEN (IF x.neg THEN <<"-">> ELSE <<>>) \o <<"i", "n", "f">>
    ELSE (IF x.neg THEN <<"-">> ELSE <<>>)
         \o NatStr(x.m \div Pow10(x.s)) \o <<".">>
         \o (IF x.s = 0 THEN <<"0">> ELSE NatStr(x.m % Pow10(x.s)))

\* repr(float), as the f-string in to_line formats precio
FloatStr(x) ==
    IF x.kind = "nan" THEN <<"n", "a", "n">>
    ELSE IF x.kind = "inf"
    THEN (IF x.neg THEN <<"-">> ELSE <<>>) \o <<"i", "n", "f">>
    ELSE (IF x.neg THEN <<"-">> ELSE <<>>)
         \o NatStr(x.m \div Pow10(x.s)) \o <<".">>
         \o (IF x.s = 0 THEN <<"0">> ELSE ZeroPad(NatStr(x.m % Pow10(x.s)), x.s))

\* float(s): surrounding whitespace, an optional sign, then nan, inf or a
\* decimal literal  digits [. [digits]]  or  . digits
ParseFloat(s) ==
    LET sg == SignOf(Strip(s))
        body == sg[2]
        parts == Split(body, ".")
        ip == parts[1]
        fp == IF Len(parts) = 2 THEN parts[2] ELSE <<>>
    IN  IF body = <<"n", "a", "n">> THEN [ok |-> TRUE, val |-> NaN]
        ELSE IF body = <<"i", "n", "f">> THEN [ok |-> TRUE, val |-> Infinity(sg[1])]
        ELSE IF /\ Len(parts) <= 2
                /\ AllDigits(ip) /\ AllDigits(fp)
                /\ Len(ip) + Len(fp) > 0
        THEN [ok |-> TRUE, val |-> Finite(sg[1], DigitsVal(ip \o fp), Len(fp))]
        ELSE [ok |-> FALSE, val |-> NaN]

\* float.__eq__ on two distinct float objects: nan equals nothing, and
\* -0.0 equals 0.0
FloatEq(x, y) ==
    /\ x.kind # "nan" /\ y.kind # "nan"
    /\ x.kind = y.kind
    /\ IF x.kind = "fin"
       THEN x.m = y.m /\ x.s = y.s /\ (x.m = 0 \/ x.neg = y.neg)
       ELSE x.neg = y.neg

(***************************************************************************)
(* Producto                                                                *)
(***************************************************************************)
Producto(id, nombre, cantidad, precio) ==
    [id |-> id, nombre |-> nombre, cantidad |-> cantidad, precio |-> precio]

\* the generated dataclass __eq__: field-wise comparison
ProductoEq(p, q) ==
    /\ p.id = q.id
    /\ p.nombre = q.nombre
    /\ p.cantidad = q.cantidad
    /\ FloatEq(p.precio, q.precio)

to_line(p) ==
    p.id \o <<FIELD_SEP>> \o p.nombre \o <<FIELD_SEP>> \o IntStr(p.cantidad)
         \o <<FIELD_SEP>> \o FloatStr(p.precio) \o <<NL>>

None == [none |-> TRUE]

IsNone(x) == "none" \in DOMAIN x

from_line(line) ==
    LET parts == Split(Strip(line), FIELD_SEP)
    IN  IF Len(parts) # 4 THEN None
        ELSE LET cantidad == ParseInt(parts[3])
                 precio == ParseFloat(parts[4])
             IN  IF ~cantidad.ok \/ ~precio.ok THEN None
                 ELSE Producto(parts[1], parts[2], cantidad.val, precio.val)

(***************************************************************************)
(* The dict self.productos.  Python dicts iterate in insertion order: an   *)
(* assignment to an existing key keeps the key's position, a new key goes  *)
(* last.                                                                   *)
(***************************************************************************)
Keys(d) == {d[i].id : i \in 1..Len(d)}

HasKey(d, id) == \E i \in 1..Len(d) : d[i].id = id

\* the bug of replacing an entry by deleting it and inserting it again, which
\* moves the key to the end
DictSet_mueve(d, p) == Append(SelectSeq(d, LAMBDA q : q.id # p.id), p)

\* the bug of keeping the records in a list: every store appends
DictSet_lista(d, p) == Append(d, p)

\* d[p.id] = p
DictSet(d, p) ==
    IF HasKey(d, p.id)
    THEN [i \in 1..Len(d) |-> IF d[i].id = p.id THEN p ELSE d[i]]
    ELSE Append(d, p)

\* d.pop(id), for a key that is present: the dict without it
DictPop(d, id) == SelectSeq(d, LAMBDA q : q.id # id)

\* d.get(id)
DictGet(d, id) ==
    IF HasKey(d, id) THEN d[CHOOSE i \in 1..Len(d) : d[i].id = id] ELSE None

(***************************************************************************)
(* The backing file and what the operating system can answer.              *)
(***************************************************************************)
Absent == [exists |-> FALSE, text |-> <<>>]

FileOf(text) == [exists |-> TRUE, text |-> text]

\* open(..., "w") inside _ensure_file_exists: created, PermissionError, other OSError
CreateOutcomes == {"ok", "denied", "oserror"}

\* open(..., "r") and readlines() on a file that exists
ReadOutcomes == {"ok", "denied", "oserror"}

\* open(..., "w") and the writes in guardar_todo; "short" is an OSError raised
\* after the file was truncated and only part of the text reached it
WriteOutcomes == {"ok", "denied", "oserror", "short"}

Failed(outcome) == outcome # "ok"

\* the answers to choose among for a file operation: all of them when the
\* call reaches the operation, and just "ok" (never looked at) when it does not
Asked(outcomes, reached) == IF reached THEN outcomes ELSE {"ok"}

\* the bug of never creating the file
ensure_file_exists_nada(f, create) == f

\* _ensure_file_exists: the file afterwards
ensure_file_exists(f, create) ==
    IF f.exists THEN f
    ELSE IF create = "ok" THEN FileOf(<<>>)
    ELSE f

\* the bug of a break where the loop has continue: the first corrupt line
\* ends the load
RECURSIVE LoadLines_break(_, _)
LoadLines_break(d, lineas) ==
    IF lineas = <<>> THEN d
    ELSE LET line == Head(lineas)
             prod == from_line(line)
         IN  IF Strip(line) = <<>> THEN LoadLines_break(d, Tail(lineas))
             ELSE IF IsNone(prod) THEN d
             ELSE LoadLines_break(DictSet(d, prod), Tail(lineas))

Undecodable(text) == \E i \in 1..Len(text) : text[i] = BAD

\* the bug of putting each record loaded in front of those loaded before it
RECURSIVE LoadLines_reves(_, _)
LoadLines_reves(d, lineas) ==
    IF lineas = <<>> THEN d
    ELSE LET line == Head(lineas)
             prod == from_line(line)
         IN  IF Strip(line) = <<>> THEN LoadLines_reves(d, Tail(lineas))
             ELSE IF IsNone(prod) THEN LoadLines_reves(d, Tail(lineas))
             ELSE LoadLines_reves(<<prod>> \o SelectSeq(d, LAMBDA q : q.id # prod.id),
                                  Tail(lineas))

\* the loop of cargar_desde_archivo over the lines read, starting from d
RECURSIVE LoadLines(_, _)
LoadLines(d, lineas) ==
    IF lineas = <<>> THEN d
    ELSE LET line == Head(lineas)
             prod == from_line(line)
         IN  IF Strip(line) = <<>> THEN LoadLines(d, Tail(lineas))
             ELSE IF IsNone(prod) THEN LoadLines(d, Tail(lineas))
             ELSE LoadLines(DictSet(d, prod), Tail(lineas))

\* the bug of leaving out self.productos.clear()
cargar_sin_clear(d, f, read, create) ==
    IF ~f.exists
    THEN [productos |-> d, file |-> ensure_file_exists(f, create), io |-> "notfound"]
    ELSE IF read # "ok" THEN [productos |-> d, file |-> f, io |-> read]
    ELSE IF Undecodable(f.text) THEN [productos |-> d, file |-> f, io |-> "decode"]
    ELSE [productos |-> LoadLines(d, ReadLines(f.text)), file |-> f, io |-> "ok"]

\* the bug of clearing the dict before the file is opened
cargar_clear_antes(d, f, read, create) ==
    IF ~f.exists
    THEN [productos |-> <<>>, file |-> ensure_file_exists(f, create), io |-> "notfound"]
    ELSE IF read # "ok" THEN [productos |-> <<>>, file |-> f, io |-> read]
    ELSE IF Undecodable(f.text) THEN [productos |-> <<>>, file |-> f, io |-> "decode"]
    ELSE [productos |-> LoadLines(<<>>, ReadLines(f.text)), file |-> f, io |-> "ok"]

\* the bug of keeping the records in a list that each load extends
cargar_acumula(d, f, read, create) ==
    IF ~f.exists
    THEN [productos |-> d, file |-> ensure_file_exists(f, create), io |-> "notfound"]
    ELSE IF read # "ok" THEN [productos |-> d, file |-> f, io |-> read]
    ELSE IF Undecodable(f.text) THEN [productos |-> d, file |-> f, io |-> "decode"]
    ELSE [productos |-> d \o LoadLines(<<>>, ReadLines(f.text)), file |-> f, io |-> "ok"]

\* cargar_desde_archivo: [productos, file, io]; io tells how the read ended:
\* "ok", "notfound", "denied", "oserror", or "decode" when readlines() raised
\* UnicodeDecodeError, which no except clause catches
cargar_desde_archivo(d, f, read, create) ==
    IF ~f.exists
    THEN [productos |-> d, file |-> ensure_file_exists(f, create), io |-> "notfound"]
    ELSE IF read # "ok" THEN [productos |-> d, file |-> f, io |-> read]
    ELSE IF Undecodable(f.text) THEN [productos |-> d, file |-> f, io |-> "decode"]
    ELSE [productos |-> LoadLines(<<>>, ReadLines(f.text)), file |-> f, io |-> "ok"]

\* the bug of writing the records last to first
FileText_reves(d) == Concat([i \in 1..Len(d) |-> to_line(d[Len(d) + 1 - i])])

\* the text guardar_todo writes
FileText(d) == Concat([i \in 1..Len(d) |-> to_line(d[i])])

\* the bug of opening the file with mode "a": the text is appended
guardar_todo_append(d, f, write, cut) ==
    IF write = "ok" THEN [file |-> FileOf(f.text \o FileText(d)), ok |-> TRUE]
    ELSE IF write = "short" THEN [file |-> FileOf(f.text \o SubSeq(FileText(d), 1, cut)), ok |-> FALSE]
    ELSE [file |-> f, ok |-> FALSE]

\* the bug of writing only the record stored last instead of every record
guardar_todo_ultimo(d, f, write, cut) ==
    LET text == IF d = <<>> THEN <<>> ELSE to_line(d[Len(d)])
    IN  IF write = "ok" THEN [file |-> FileOf(text), ok |-> TRUE]
        ELSE IF write = "short" THEN [file |-> FileOf(SubSeq(text, 1, cut)), ok |-> FALSE]
        ELSE [file |-> f, ok |-> FALSE]

\* guardar_todo: [file, ok]
guardar_todo(d, f, write, cut) ==
    IF write = "ok" THEN [file |-> FileOf(FileText(d)), ok |-> TRUE]
    ELSE IF write = "short" THEN [file |-> FileOf(SubSeq(FileText(d), 1, cut)), ok |-> FALSE]
    ELSE [file |-> f, ok |-> FALSE]

\* the lengths a short write can leave behind.  Any proper prefix of the text
\* is possible; two are followed: nothing, and the first half of the text
Cuts(d, write) ==
    LET n == Len(FileText(d))
    IN  IF write = "short" THEN {c \in {0, n \div 2} : c < n} ELSE {0}

(***************************************************************************)
(* Inputs: the records and ids the caller passes, and the files that may   *)
(* exist at self.ruta before the program starts.                           *)
(***************************************************************************)
InputProductos ==
    { Producto(<<"a">>, <<"n">>, 1, Finite(FALSE, 5, 1)),          \* a|n|1|0.5
      Producto(<<"a">>, <<"m">>, 12, Finite(FALSE, 10, 0)),        \* a|m|12|10.0
      Producto(<<"b">>, <<"n", " ">>, -1, Finite(FALSE, 25, 2)),   \* b|n |-1|0.25
      Producto(<<" ", "a">>, <<"n">>, 1, Finite(FALSE, 5, 1)) }    \* id with a leading blank

InputIds == {p.id : p \in InputProductos}

InitialFiles ==
    { Absent,
      FileOf(<<>>),
      \* a line with three fields, then one well-formed line
      FileOf(<<"b", "|", "n", "|", "2", NL,
               "a", "|", "n", "|", "1", "|", "0", ".", "5", NL>>),
      \* two lines with the same id, a blank line between them
      FileOf(<<"a", "|", "n", "|", "1", "|", "0", ".", "5", NL,
               " ", NL,
               "b", "|", "m", "|", "2", "|", "1", NL,
               "a", "|", "m", "|", "+", "2", "|", ".", "5", NL>>),
      \* blanks around the fields, no final newline
      FileOf(<<" ", "b", " ", "|", "n", "|", " ", "2", " ", "|", "-", "i", "n", "f">>),
      \* cantidad is not an int, precio is not a float, then a line whose precio is nan
      FileOf(<<"a", "|", "n", "|", "1", ".", "0", "|", "1", NL,
               "b", "|", "n", "|", "1", "|", "1", ".", "0", ".", NL,
               "m", "|", "|", "0", "|", "n", "a", "n", NL>>),
      \* a byte that does not decode
      FileOf(<<"a", "|", "n", "|", "1", "|", "0", ".", "5", NL, BAD, NL>>) }

\* the records sent through to_line and from_line on their own
LineIds == {<<"a">>, <<" ", "a">>, <<"a", " ">>, <<" ">>, <<>>}

LineNombres == {<<"n">>, <<"n", " ">>, <<>>, <<"n", "|", "m">>}

LineCantidades == {0, -1, 12}

LinePrecios ==
    {Finite(FALSE, 5, 1), Finite(FALSE, 10, 0), Finite(TRUE, 0, 0), Finite(TRUE, 125, 2),
     Infinity(TRUE), NaN}

LineProductos ==
    {Producto(id, nombre, cantidad, precio) :
        id \in LineIds, nombre \in LineNombres,
        cantidad \in LineCantidades, precio \in LinePrecios}

(***************************************************************************)
(* The state machine of the store.                                         *)
(***************************************************************************)
\* prev tells of the call just before, where a later call is read against it:
\* a reload keeps how a reload just before it ended, or "saved" after a call
\* that rewrote the file; a call that rewrites the file keeps "unsaved" after
\* a call that changed the dict and failed to rewrite the file; "none" otherwise
Call(op, result, value, io) ==
    [op |-> op, result |-> result, value |-> value, io |-> io, prev |-> "none"]

\* the call that led here was an add, update or delete that returned True
Saved == last.op \in {"add", "update", "delete"} /\ last.result = "True"

\* the call that led here was an add, update or delete whose rewrite failed
Unsaved ==
    last.op \in {"add", "update", "delete"} /\ last.io \in {"denied", "oserror", "short"}

Bool(b) == IF b THEN "True" ELSE "False"

\* a call that met a failing file operation uses up one of the MaxFaults
Charge(failed) ==
    /\ faults + (IF failed THEN 1 ELSE 0) <= MaxFaults
    /\ faults' = faults + (IF failed THEN 1 ELSE 0)

Init ==
    /\ productos = <<>>
    /\ file \in InitialFiles
    /\ pc = "new"
    /\ faults = 0
    /\ last = Call("none", "None", None, "none")

\* Inventario.__init__
Inventario_init ==
    /\ pc = "new"
    /\ \E create \in Asked(CreateOutcomes, ~file.exists) :
       \E read \in Asked(ReadOutcomes, file.exists \/ create = "ok"),
          create2 \in Asked(CreateOutcomes, ~file.exists /\ create # "ok") :
         LET f1 == ensure_file_exists(file, create)
             r == cargar_desde_archivo(<<>>, f1, read, create2)
         IN  /\ Charge(Failed(create) \/ Failed(read) \/ Failed(create2))
             /\ productos' = r.productos
             /\ file' = r.file
             /\ pc' = IF r.io = "decode" THEN "failed" ELSE "ready"
             /\ last' = Call("init", IF r.io = "decode" THEN "raised" ELSE "None", None, r.io)

\* menu option 6: Inventario.cargar_desde_archivo
Recargar ==
    /\ pc = "ready"
    /\ \E read \in Asked(ReadOutcomes, file.exists),
          create \in Asked(CreateOutcomes, ~file.exists) :
         LET r == cargar_desde_archivo(productos, file, read, create)
         IN  /\ Charge(Failed(read) \/ Failed(create))
             /\ productos' = r.productos
             /\ file' = r.file
             /\ last' = [Call("reload", IF r.io = "decode" THEN "raised" ELSE "None", None, r.io)
                            EXCEPT !.prev = IF last.op = "reload" THEN last.io
                                            ELSE IF Saved THEN "saved" ELSE "none"]
    /\ UNCHANGED pc

\* the bug of undoing the change to the dict when guardar_todo() fails
Guardar_rollback(op, d) ==
    \E write \in WriteOutcomes :
      \E cut \in Cuts(d, write) :
        LET g == guardar_todo(d, file, write, cut)
        IN  /\ Charge(Failed(write))
            /\ productos' = IF g.ok THEN d ELSE productos
            /\ file' = g.file
            /\ last' = [Call(op, Bool(g.ok), None, write)
                           EXCEPT !.prev = IF g.ok /\ Unsaved THEN "unsaved" ELSE "none"]

\* the tail shared by the three mutating methods: the dict has become d, then
\* "if self.guardar_todo(): return True" and "return False"
Guardar(op, d) ==
    \E write \in WriteOutcomes :
      \E cut \in Cuts(d, write) :
        LET g == guardar_todo(d, file, write, cut)
        IN  /\ Charge(Failed(write))
            /\ productos' = d
            /\ file' = g.file
            /\ last' = [Call(op, Bool(g.ok), None, write)
                           EXCEPT !.prev = IF g.ok /\ Unsaved THEN "unsaved" ELSE "none"]

\* the early "return False" of the three mutating methods
Rechazar(op) ==
    /\ last' = Call(op, "False", None, "none")
    /\ UNCHANGED <<productos, file, faults>>

\* the bug of leaving out the check for an existing id
anadir_sin_comprobar(producto) ==
    /\ pc = "ready"
    /\ HasKey(productos, producto.id) \/ Len(productos) < MaxProductos
    /\ Guardar("add", DictSet(productos, producto))
    /\ UNCHANGED pc

anadir_producto(producto) ==
    /\ pc = "ready"
    /\ IF HasKey(productos, producto.id)
       THEN Rechazar("add")
       ELSE /\ Len(productos) < MaxProductos
            /\ Guardar("add", DictSet(productos, producto))
    /\ UNCHANGED pc

\* the bug of leaving out the check for a missing id: the update inserts
actualizar_sin_comprobar(producto) ==
    /\ pc = "ready"
    /\ Guardar("update", DictSet(productos, producto))
    /\ UNCHANGED pc

actualizar_producto(producto) ==
    /\ pc = "ready"
    /\ IF ~HasKey(productos, producto.id)
       THEN Rechazar("update")
       ELSE Guardar("update", DictSet(productos, producto))
    /\ UNCHANGED pc

eliminar_producto(id_producto) ==
    /\ pc = "ready"
    /\ IF ~HasKey(productos, id_producto)
       THEN Rechazar("delete")
       ELSE Guardar("delete", DictPop(productos, id_producto))
    /\ UNCHANGED pc

\* the bug of looking the record up with pop(), which takes it out of the dict
obtener_pop(id_producto) ==
    /\ pc = "ready"
    /\ LET found == DictGet(productos, id_producto)
       IN  last' = Call("get", IF IsNone(found) THEN "None" ELSE "Producto", found, "none")
    /\ productos' = DictPop(productos, id_producto)
    /\ UNCHANGED <<file, pc, faults>>

obtener_producto(id_producto) ==
    /\ pc = "ready"
    /\ LET found == DictGet(productos, id_producto)
       IN  last' = Call("get", IF IsNone(found) THEN "None" ELSE "Producto", found, "none")
    /\ UNCHANGED <<productos, file, pc, faults>>

listar_productos ==
    /\ pc = "ready"
    /\ last' = Call("list", "None", None, "none")
    /\ UNCHANGED <<productos, file, pc, faults>>

Anadir == \E producto \in InputProductos : anadir_producto(producto)

Actualizar == \E producto \in InputProductos : actualizar_producto(producto)

Eliminar == \E id_producto \in InputIds : eliminar_producto(id_producto)

Obtener == \E id_producto \in InputIds : obtener_producto(id_producto)

Next ==
    \/ Inventario_init
    \/ Recargar
    \/ Anadir
    \/ Actualizar
    \/ Eliminar
    \/ Obtener
    \/ listar_productos

Spec == Init /\ [][Next]_vars

(***************************************************************************)
(* One record through Producto.to_line and Producto.from_line: productos   *)
(* holds the record, file the line written, last.value the result parsed.  *)
(***************************************************************************)
LineInit ==
    /\ \E p \in LineProductos : productos = <<p>>
    /\ file = Absent
    /\ pc = "record"
    /\ faults = 0
    /\ last = Call("none", "None", None, "none")

Serializar ==
    /\ pc = "record"
    /\ file' = FileOf(to_line(productos[1]))
    /\ pc' = "line"
    /\ last' = Call("to_line", "str", None, "none")
    /\ UNCHANGED <<productos, faults>>

Analizar ==
    /\ pc = "line"
    /\ LET prod == from_line(file.text)
       IN  last' = Call("from_line", IF IsNone(prod) THEN "None" ELSE "Producto", prod, "none")
    /\ pc' = "parsed"
    /\ UNCHANGED <<productos, file, faults>>

LineNext == Serializar \/ Analizar

SpecLine == LineInit /\ [][LineNext]_vars

(***************************************************************************)
(* Properties.                                                             *)
(***************************************************************************)
MutatingOps == {"add", "update", "delete"}

\* how a read that never got the lines ends, and how a failed rewrite ends
OpenFailures == {"notfound", "denied", "oserror"}

WriteFailures == {"denied", "oserror", "short"}

\* the call that led here ran cargar_desde_archivo and it read the file
Loaded == last.op \in {"init", "reload"} /\ last.io = "ok"

\* the step returns False and changes neither the dict nor the file
NoEffect == last'.result = "False" /\ last'.io = "none" /\ productos' = productos /\ file' = file

InSync == file.exists /\ file.text = FileText(productos)

\* C1: after add, update or delete returned True, the file holds exactly the
\* serialized lines of the records of the dict, in the dict's order, and
\* nothing else.
C1_FileIsSerializedMap ==
    (last.op \in MutatingOps /\ last.result = "True") =>
        /\ file.exists
        /\ file.text = Concat([i \in 1..Len(productos) |-> to_line(productos[i])])

C1_Witness ==
    /\ last.op = "delete" /\ last.result = "True"
    /\ Len(productos) >= 1
    /\ file.text = to_line(productos[1])

\* C2: añadir_producto with an id that is already a key returns False without
\* attempting a rewrite, and the dict and the file stay as they were.
C2_DuplicateAddRejected ==
    [][\A p \in InputProductos :
         (last'.op = "add" /\ HasKey(productos, p.id) /\ anadir_producto(p)) => NoEffect]_vars

C2_Witness ==
    /\ last.op = "add" /\ last.result = "False" /\ last.io = "none"
    /\ Len(productos) >= 1 /\ InSync

\* C3: actualizar_producto and eliminar_producto with an id that is not a key
\* return False, and the dict and the file stay as they were.
C3_MissingIdRejected ==
    [][/\ \A p \in InputProductos :
            (last'.op = "update" /\ ~HasKey(productos, p.id) /\ actualizar_producto(p))
                => NoEffect
       /\ \A id \in InputIds :
            (last'.op = "delete" /\ ~HasKey(productos, id) /\ eliminar_producto(id))
                => NoEffect]_vars

C3_Witness ==
    /\ last.op = "update" /\ last.result = "False" /\ last.io = "none"
    /\ Len(productos) >= 1 /\ InSync

\* C4: when the rewrite fails in add, update or delete whose id precondition
\* held, the call returns False and the change to the dict is kept: the added
\* record is in it, the updated id maps to the new record, the deleted id is gone.
C4_NoRollback ==
    [][/\ \A p \in InputProductos :
            (/\ last'.op = "add" /\ last'.io \in WriteFailures
             /\ ~HasKey(productos, p.id) /\ anadir_producto(p))
                => (last'.result = "False" /\ productos' = Append(productos, p))
       /\ \A p \in InputProductos :
            (/\ last'.op = "update" /\ last'.io \in WriteFailures
             /\ HasKey(productos, p.id) /\ actualizar_producto(p))
                => (/\ last'.result = "False"
                    /\ DictGet(productos', p.id) = p
                    /\ Keys(productos') = Keys(productos))
       /\ \A id \in InputIds :
            (/\ last'.op = "delete" /\ last'.io \in WriteFailures
             /\ HasKey(productos, id) /\ eliminar_producto(id))
                => (/\ last'.result = "False"
                    /\ ~HasKey(productos', id)
                    /\ Keys(productos') = Keys(productos) \ {id})]_vars

C4_Witness ==
    /\ last.op = "add" /\ last.result = "False" /\ last.io \in WriteFailures
    /\ Len(productos) = 2
    /\ file.exists /\ file.text = to_line(productos[1])

\* the records of the non-blank well-formed lines of a text, in file order
ParsedLines(text) ==
    LET ls == ReadLines(text)
    IN  SelectSeq([i \in 1..Len(ls) |-> from_line(ls[i])], LAMBDA r : ~IsNone(r))

FirstIndex(v, id) == CHOOSE i \in 1..Len(v) : v[i].id = id /\ \A j \in 1..(i - 1) : v[j].id # id

\* C5 as stated: after a reload that read the file, the dict holds precisely
\* the records parsed from the well-formed lines, in file order, none missing.
C5_MapIsParsedLines == Loaded => productos = ParsedLines(file.text)

\* C5 as amended: after a reload that read the file, the dict holds one record
\* per id found on a well-formed line, namely that of the last such line with
\* the id, the ids ordered by their first line; nothing else is in the dict.
C5_MapIsLastLinePerId ==
    Loaded =>
        LET v == ParsedLines(file.text)
        IN  /\ \A i \in 1..Len(v) : HasKey(productos, v[i].id)
            /\ \A k \in 1..Len(productos) :
                 \E i \in 1..Len(v) :
                    /\ v[i] = productos[k]
                    /\ \A j \in (i + 1)..Len(v) : v[j].id # productos[k].id
            /\ \A k, l \in 1..Len(productos) :
                 k < l => /\ productos[k].id # productos[l].id
                          /\ FirstIndex(v, productos[k].id) < FirstIndex(v, productos[l].id)

C5_Witness ==
    /\ last.op = "reload" /\ last.io = "ok"
    /\ Len(productos) = 2
    /\ Len(ParsedLines(file.text)) = 3

NoSep(s) == \A i \in 1..Len(s) : s[i] # FIELD_SEP

\* C6: for a record whose id and nombre hold no separator, from_line of its
\* to_line returns a record, equal to it in all four fields.
C6_RoundTrip ==
    (pc = "parsed" /\ NoSep(productos[1].id) /\ NoSep(productos[1].nombre)) =>
        /\ ~IsNone(last.value)
        /\ ProductoEq(last.value, productos[1])

\* C6 as amended: for a record whose id and nombre hold no separator, whose
\* id does not begin with whitespace and whose precio is not nan, from_line
\* of its to_line returns a record, equal to it in all four fields.
C6_RoundTripAmended ==
    (/\ pc = "parsed"
     /\ NoSep(productos[1].id) /\ NoSep(productos[1].nombre)
     /\ LStrip(productos[1].id) = productos[1].id
     /\ productos[1].precio.kind # "nan") =>
        /\ ~IsNone(last.value)
        /\ ProductoEq(last.value, productos[1])

C6_Witness ==
    /\ pc = "parsed"
    /\ productos[1].id = <<"a", " ">>
    /\ productos[1].nombre = <<"n", " ">>
    /\ productos[1].cantidad = -1
    /\ productos[1].precio = Finite(TRUE, 125, 2)
    /\ ~IsNone(last.value)
    /\ last.value = productos[1]

\* C7: a reload that cannot open the file leaves the dict as it was; in
\* __init__ that is the empty dict.
C7_FailedOpenKeepsMap ==
    [][/\ (last'.op = "reload" /\ last'.io \in OpenFailures) => productos' = productos
       /\ (last'.op = "init" /\ last'.io \in OpenFailures) => productos' = <<>>]_vars

C7_Witness ==
    /\ last.op = "reload" /\ last.io \in OpenFailures
    /\ file.exists /\ ~Undecodable(file.text)
    /\ productos # <<>>
    /\ ParsedLines(file.text) # productos

WellFormed(line) ==
    LET parts == Split(line, FIELD_SEP)
    IN  Len(parts) = 4 /\ ParseInt(parts[3]).ok /\ ParseFloat(parts[4]).ok

C9_Example ==
    <<"b", "|", "n", "|", "2", NL, "a", "|", "n", "|", "1", "|", "0", ".", "5", NL>>

\* C9: a reload skips every line that is not well formed and goes on: the ids
\* loaded are exactly those of the well-formed lines, the dict is what the
\* well-formed lines alone would give, its size is at most their number, and
\* the file of one well-formed and one three-field line gives one record.
C9_CorruptLinesSkipped ==
    Loaded =>
        LET ls == ReadLines(file.text)
            good == SelectSeq(ls, WellFormed)
        IN  /\ Keys(productos) = {from_line(good[i]).id : i \in 1..Len(good)}
            /\ productos = LoadLines(<<>>, good)
            /\ Len(productos) <= Len(good)
            /\ file.text = C9_Example => Len(productos) = 1

C9_Witness ==
    /\ Loaded
    /\ Len(productos) = 1
    /\ LET ls == ReadLines(file.text)
       IN  Len(ls) >= 2 /\ ~WellFormed(ls[1]) /\ Strip(ls[1]) # <<>> /\ WellFormed(ls[2])

\* the indices of the records an update of id leaves alone
Others(id) == {i \in 1..Len(productos) : productos[i].id # id}

\* C10 as stated: a successful update of an id leaves every other record
\* unchanged in the dict, and the line of each in the new file is a line the
\* file held before the update, the lines in the same order as before.
C10_UpdateKeepsOtherLines ==
    [][\A p \in InputProductos :
         (/\ last'.op = "update" /\ last'.result = "True"
          /\ HasKey(productos, p.id) /\ actualizar_producto(p))
            => LET old == ReadLines(file.text)
                   new == ReadLines(file'.text)
               IN  /\ Len(productos') = Len(productos)
                   /\ \A i \in Others(p.id) : productos'[i] = productos[i]
                   /\ \E at \in [Others(p.id) -> 1..Len(old)] :
                        /\ \A i \in Others(p.id) : old[at[i]] = new[i]
                        /\ \A i, k \in Others(p.id) : i < k => at[i] < at[k]]_vars

\* C10 as amended: a successful update of an id leaves every other record
\* unchanged in the dict and writes each at its position as its serialized
\* line; that line is the one the file held there before the update
\* whenever the file held exactly the serialized lines of the dict.
C10_UpdateKeepsOthers ==
    [][\A p \in InputProductos :
         (/\ last'.op = "update" /\ last'.result = "True"
          /\ HasKey(productos, p.id) /\ actualizar_producto(p))
            => LET old == ReadLines(file.text)
                   new == ReadLines(file'.text)
               IN  /\ Len(productos') = Len(productos)
                   /\ Len(new) = Len(productos)
                   /\ \A i \in Others(p.id) :
                        /\ productos'[i] = productos[i]
                        /\ new[i] = to_line(productos[i])
                        /\ InSync => old[i] = new[i]]_vars

C10_Witness ==
    /\ last.op = "update" /\ last.result = "True"
    /\ Len(productos) = 2
    /\ productos[1].id = <<"b">>

\* C11: __init__ where no file exists yields the empty dict and, when no file
\* operation fails, an empty file; from the empty dict and the empty file an
\* add of r that returns True leaves the dict holding r alone, get(r.id)
\* giving r, and the file holding the serialized line of r alone; a delete of
\* r.id that then returns True leaves the dict empty and the file empty.
C11_InitAddDelete ==
    [][/\ (last'.op = "init" /\ ~file.exists /\ Inventario_init) =>
            /\ productos' = <<>>
            /\ file'.exists => file'.text = <<>>
            /\ faults' = faults => file' = FileOf(<<>>)
       /\ \A r \in InputProductos :
            (/\ last'.op = "add" /\ last'.result = "True"
             /\ productos = <<>> /\ file = FileOf(<<>>) /\ anadir_producto(r))
                => /\ productos' = <<r>>
                   /\ DictGet(productos', r.id) = r
                   /\ file' = FileOf(to_line(r))
       /\ \A r \in InputProductos :
            (/\ last'.op = "delete" /\ last'.result = "True"
             /\ productos = <<r>> /\ file = FileOf(to_line(r)) /\ eliminar_producto(r.id))
                => productos' = <<>> /\ file' = FileOf(<<>>)]_vars

C11_Witness ==
    /\ last.op = "delete" /\ last.result = "True"
    /\ productos = <<>> /\ file = FileOf(<<>>)
    /\ faults = 0

\* C12: no call lets an exception out: __init__, reload, add, update, delete
\* and get each end by returning (None, True, False or a record), whatever
\* the file operations answer, content that does not decode included.
C12_NoExceptionEscapes == last.result # "raised" /\ pc # "failed"

\* C13: obtener_producto and listar_productos change neither the dict nor the
\* file, and obtener_producto(id) returns the record held under id when id is
\* a key of the dict and None when it is not.
C13_GetListPure ==
    [][/\ \A id \in InputIds :
            (last'.op = "get" /\ obtener_producto(id)) =>
                /\ productos' = productos /\ file' = file
                /\ IF id \in Keys(productos)
                   THEN /\ last'.result = "Producto"
                        /\ last'.value \in {productos[i] : i \in 1..Len(productos)}
                        /\ last'.value.id = id
                   ELSE last'.result = "None" /\ IsNone(last'.value)
       /\ (last'.op = "list" /\ listar_productos) =>
                productos' = productos /\ file' = file]_vars

C13_Witness ==
    /\ last.op = "get" /\ last.result = "Producto"
    /\ Len(productos) = 2 /\ last.value = productos[2]
    /\ ~InSync

\* the serialized lines of the records of a dict, in the dict's order
LinesOf(d) == [i \in 1..Len(d) |-> to_line(d[i])]

\* a sequence without its k-th element
Without(v, k) == [i \in 1..(Len(v) - 1) |-> IF i < k THEN v[i] ELSE v[i + 1]]

C15_KeysAreIds ==
    /\ \A i, j \in 1..Len(productos) : productos[i].id = productos[j].id => i = j
    /\ \A k \in Keys(productos) : DictGet(productos, k).id = k
    /\ Cardinality(Keys(productos)) = Len(productos)

C15_Witness ==
    /\ last.op = "init" /\ last.io = "ok"
    /\ Len(productos) = 2
    /\ Len(ParsedLines(file.text)) > Len(productos)

\* C16: an add, update or delete that returns True, in a state where the
\* file does not hold the dict because earlier rewrites failed, writes the
\* whole dict as it is after the call: the dict as it was (with the records
\* added or replaced, without the records deleted, while the rewrites failed)
\* plus the new record, with one record replaced, or less one record.
C16_RewriteWritesWholeDict ==
    [][(last'.op \in MutatingOps /\ last'.result = "True" /\ ~InSync) =>
          /\ file'.exists
          /\ ReadLines(file'.text) = LinesOf(productos')
          /\ last'.op = "add" =>
                productos' = Append(productos, productos'[Len(productos')])
          /\ last'.op = "update" =>
                /\ Len(productos') = Len(productos)
                /\ \A i \in 1..Len(productos) : productos'[i].id = productos[i].id
                /\ \A i, k \in 1..Len(productos) :
                     (productos'[i] # productos[i] /\ productos'[k] # productos[k]) => i = k
          /\ last'.op = "delete" =>
                \E k \in 1..Len(productos) : productos' = Without(productos, k)]_vars

C16_Witness ==
    /\ last.prev = "unsaved" /\ last.op = "update" /\ last.result = "True"
    /\ Len(productos) = 2
    /\ InSync

\* neither the separator nor a newline, and no blank at either end
Clean(s) == NoSep(s) /\ (\A i \in 1..Len(s) : s[i] # NL) /\ Strip(s) = s

AllClean(d) == \A i \in 1..Len(d) : Clean(d[i].id) /\ Clean(d[i].nombre)

\* the dict after the step holds records equal to those before it, in the
\* same order; a reload that read the file has built new records
SameRecords ==
    /\ Len(productos') = Len(productos)
    /\ \A i \in 1..Len(productos) :
         IF last'.io = "ok"
         THEN ProductoEq(productos'[i], productos[i])
         ELSE productos'[i] = productos[i]

\* C17 as stated: a reload that follows an add, update or delete that
\* returned True, every id and nombre in the dict being clean, leaves the
\* dict with equal records in the same order.
C17_ReloadAfterSave ==
    [][(last'.op = "reload" /\ Saved /\ AllClean(productos) /\ Recargar) => SameRecords]_vars

\* C17 as amended: a reload in a state where the file holds the dict, as it
\* does after an add, update or delete that returned True, every id and
\* nombre in the dict being clean and no precio being nan, leaves the dict
\* with equal records in the same order.
C17_ReloadAfterSaveNoNaN ==
    [][(/\ last'.op = "reload"
        /\ AllClean(productos)
        /\ \A i \in 1..Len(productos) : productos[i].precio.kind # "nan"
        /\ Saved \/ InSync
        /\ Recargar) => SameRecords]_vars

C17_Witness ==
    /\ last.op = "reload" /\ last.io = "ok" /\ last.prev = "saved"
    /\ Len(productos) = 2
    /\ AllClean(productos)
    /\ \A i \in 1..Len(productos) : productos[i].precio.kind # "nan"

====
